---- MODULE Spec2Model ----
(***************************************************************************)
(* rehype-timeseries-chart: the transformer that turns a                   *)
(* <pre><code class="language-csv"> block into an <svg> chart, with its    *)
(* column-0 format detector (date-format) and its row validation.          *)
(*                                                                         *)
(* Text is a sequence of one-character strings, so that split, trim, the   *)
(* regular expressions and the parsers are computed as the code computes   *)
(* them.  Numbers are numerals (sign and digits without leading zeros):    *)
(* a 13- or 16-digit key does not fit a machine integer of the checker.    *)
(***************************************************************************)
EXTENDS Integers, Sequences, FiniteSets, TLC

VARIABLES text, tree, options, engine, sample, detected, pc, chartData, console, scanState

vars == <<text, tree, options, engine, sample, detected, pc, chartData, console, scanState>>

(***************************************************************************)
(* Characters and strings                                                  *)
(***************************************************************************)
Digits == {"0", "1", "2", "3", "4", "5", "6", "7", "8", "9"}

NL == "\n"

IsSpace(c) == c = " "

IsDigit(c) == c \in Digits

SetMin(S) == CHOOSE x \in S : \A y \in S : x <= y

SetMax(S) == CHOOSE x \in S : \A y \in S : y <= x

AllDigits(s) == \A i \in DOMAIN s : IsDigit(s[i])

\* String.prototype.trim
Trim(s) ==
    LET keep == {i \in DOMAIN s : ~IsSpace(s[i])}
    IN  IF keep = {} THEN << >> ELSE SubSeq(s, SetMin(keep), SetMax(keep))

\* String.prototype.split(sep): the pieces between the separators, always
\* at least one piece
Split(s, sep) ==
    LET at == {i \in DOMAIN s : s[i] = sep}
        cut(j) == IF j = 0 THEN 0
                  ELSE IF j > Cardinality(at) THEN Len(s) + 1
                  ELSE CHOOSE i \in at : Cardinality({x \in at : x < i}) = j - 1
    IN  [j \in 1..(Cardinality(at) + 1) |-> SubSeq(s, cut(j - 1) + 1, cut(j) - 1)]

\* Array.prototype.join('\n')
RECURSIVE JoinNL(_)
JoinNL(parts) ==
    IF parts = << >> THEN << >>
    ELSE IF Len(parts) = 1 THEN parts[1]
    ELSE parts[1] \o << NL >> \o JoinNL(Tail(parts))

\* line.trim().split(',').map(c => c.trim())
Cells(line) ==
    LET raw == Split(Trim(line), ",")
    IN  [i \in DOMAIN raw |-> Trim(raw[i])]

(***************************************************************************)
(* Numerals                                                                *)
(***************************************************************************)
\* digits without leading zeros; the empty sequence is zero
Canon(ds) ==
    LET nz == {i \in DOMAIN ds : ds[i] # "0"}
    IN  IF nz = {} THEN << >> ELSE SubSeq(ds, SetMin(nz), Len(ds))

DigitRank == [c \in Digits |->
    CASE c = "0" -> 0 [] c = "1" -> 1 [] c = "2" -> 2 [] c = "3" -> 3
      [] c = "4" -> 4 [] c = "5" -> 5 [] c = "6" -> 6 [] c = "7" -> 7
      [] c = "8" -> 8 [] c = "9" -> 9]

\* a <= b for canonical magnitudes
MagLE(a, b) ==
    \/ Len(a) < Len(b)
    \/ /\ Len(a) = Len(b)
       /\ \/ a = b
          \/ \E i \in DOMAIN a :
                /\ DigitRank[a[i]] < DigitRank[b[i]]
                /\ \A j \in 1..(i - 1) : a[j] = b[j]

\* value of a short digit string
RECURSIVE IntOf(_)
IntOf(ds) ==
    IF ds = << >> THEN 0
    ELSE 10 * IntOf(SubSeq(ds, 1, Len(ds) - 1)) + DigitRank[ds[Len(ds)]]

\* Number(s) of a trimmed cell: the empty string is 0, an optionally signed
\* run of digits is its value, everything else over this alphabet is NaN
IsNumeric(s) ==
    \/ s = << >>
    \/ AllDigits(s)
    \/ Len(s) >= 2 /\ s[1] = "-" /\ AllDigits(Tail(s))

NumberOf(s) ==
    LET signed == s # << >> /\ s[1] = "-"
        mag    == Canon(IF signed THEN Tail(s) ELSE s)
    IN  [neg |-> signed /\ mag # << >>, mag |-> mag]

\* Number.isFinite(Number(c))
IsFiniteNumber(s) == IsNumeric(s)

(***************************************************************************)
(* d3-time-format timeParse(specifier), as date-format uses it             *)
(***************************************************************************)
\* a specifier is the sequence of its directives and literal characters
IsDirective(c) == c \in {"Y", "m", "d", "H", "M", "S"}

\* %Y reads at most four characters, every other directive at most two
FieldWidth(c) == IF c = "Y" THEN 4 ELSE 2

\* number of leading characters of sl that are spaces
LeadSpaces(sl) ==
    SetMin({k \in 0..Len(sl) : k = Len(sl) \/ ~IsSpace(sl[k + 1])})

\* number of characters of sl from position k+1 on that are digits
LeadDigits(sl, k) ==
    SetMin({n \in 0..(Len(sl) - k) : k + n = Len(sl) \/ ~IsDigit(sl[k + n + 1])})

\* numberRe = /^\s*\d+/ on string.slice(j, j + w): the new offset, or -1
ParseNum(s, j, w) ==
    LET hi == IF j + w < Len(s) THEN j + w ELSE Len(s)
        sl == SubSeq(s, j + 1, hi)
        k  == LeadSpaces(sl)
        n  == LeadDigits(sl, k)
    IN  IF n = 0 THEN [j |-> -1, field |-> << >>]
        ELSE [j |-> j + k + n, field |-> Canon(SubSeq(sl, k + 1, k + n))]

\* parseSpecifier: the offset reached and the fields read, j = -1 on failure
RECURSIVE ParseSpecifier(_, _, _, _, _)
ParseSpecifier(fmt, s, i, j, fields) ==
    IF i > Len(fmt) THEN [j |-> j, fields |-> fields]
    ELSE IF j >= Len(s) THEN [j |-> -1, fields |-> << >>]
    ELSE IF IsDirective(fmt[i])
    THEN LET r == ParseNum(s, j, FieldWidth(fmt[i]))
         IN  IF r.j < 0 THEN [j |-> -1, fields |-> << >>]
             ELSE ParseSpecifier(fmt, s, i + 1, r.j, Append(fields, r.field))
    ELSE IF s[j + 1] = fmt[i]
    THEN ParseSpecifier(fmt, s, i + 1, j + 1, fields)
    ELSE [j |-> -1, fields |-> << >>]

\* values a parser returns: null, a Date (valid or Invalid Date), a number
NullValue == [type |-> "null", valid |-> FALSE, via |-> "null", neg |-> FALSE, parts |-> << >>]

DateValue(via, neg, parts) ==
    [type |-> "Date", valid |-> TRUE, via |-> via, neg |-> neg, parts |-> parts]

InvalidDate == [type |-> "Date", valid |-> FALSE, via |-> "NaN", neg |-> FALSE, parts |-> << >>]

NumberValue(s) ==
    IF IsNumeric(s)
    THEN [type |-> "number", valid |-> TRUE, via |-> "number",
          neg |-> NumberOf(s).neg, parts |-> << NumberOf(s).mag >>]
    ELSE [type |-> "number", valid |-> FALSE, via |-> "NaN", neg |-> FALSE, parts |-> << >>]

\* timeParse(fmt)(s): null unless the whole string is read; the fields are
\* not range-checked (the Date constructor carries them over)
TimeParse(fmt, s) ==
    LET r == ParseSpecifier(fmt, s, 1, 0, << >>)
    IN  IF r.j # Len(s) THEN NullValue ELSE DateValue("fields", FALSE, r.fields)

(***************************************************************************)
(* new Date(n) and Date.parse(s)                                           *)
(***************************************************************************)
\* the largest time value, 8.64e15 ms
MaxTimeValue == << "8", "6", "4", "0", "0", "0", "0", "0", "0", "0", "0", "0", "0", "0", "0", "0" >>

Zeros3 == << "0", "0", "0" >>

\* new Date(+s * 1000), new Date(+s), new Date(+s / 1000)
EpochDate(s, scale) ==
    IF ~IsNumeric(s) THEN InvalidDate
    ELSE LET n  == NumberOf(s)
             ms == CASE scale = "s"  -> IF n.mag = << >> THEN << >> ELSE n.mag \o Zeros3
                     [] scale = "ms" -> n.mag
                     [] scale = "us" -> IF Len(n.mag) <= 3 THEN << >>
                                        ELSE SubSeq(n.mag, 1, Len(n.mag) - 3)
         IN  IF MagLE(ms, MaxTimeValue)
             THEN DateValue("epoch", n.neg /\ ms # << >>, << ms >>)
             ELSE InvalidDate

IsLeap(y) == y % 4 = 0 /\ (y % 100 # 0 \/ y % 400 = 0)

DaysInMonth(y, m) ==
    IF m = 2 THEN (IF IsLeap(y) THEN 29 ELSE 28)
    ELSE IF m \in {4, 6, 9, 11} THEN 30 ELSE 31

\* The date-only forms of the ECMAScript date-time string format over this
\* alphabet: YYYY, YYYY-MM, YYYY-MM-DD, the year also as -YYYYYY.
\* "valid": a date in every engine; "overflow": a day 29..31 the month does
\* not have; "no": not an instance of the format.
IsoClass(s) ==
    LET yl == IF s # << >> /\ s[1] = "-" THEN 7 ELSE 4
        yd == IF yl = 7 THEN SubSeq(s, 2, 7) ELSE SubSeq(s, 1, 4)
        two(k) == Len(s) >= k + 2 /\ s[k] = "-" /\ IsDigit(s[k + 1]) /\ IsDigit(s[k + 2])
        num(k) == IntOf(SubSeq(s, k + 1, k + 2))
    IN  IF ~(Len(s) \in {yl, yl + 3, yl + 6}) \/ ~AllDigits(yd) THEN "no"
        ELSE IF yl = 7 /\ Canon(yd) = << >> THEN "no"
        ELSE IF Len(s) = yl THEN "valid"
        ELSE IF ~two(yl + 1) \/ ~(num(yl + 1) \in 1..12) THEN "no"
        ELSE IF Len(s) = yl + 3 THEN "valid"
        ELSE IF ~two(yl + 4) \/ ~(num(yl + 4) \in 1..31) THEN "no"
        ELSE IF num(yl + 4) <= DaysInMonth(IntOf(yd), num(yl + 1)) THEN "valid"
        ELSE "overflow"

\* The implementation-defined part of Date.parse: a string that is
\* not an instance of the format is parsed by implementation-specific
\* heuristics.  "strict" rejects every such string; "lenient" accepts every
\* such string that holds a digit.
Engines == {"strict", "lenient"}

\* !isNaN(Date.parse(s))
DateParses(eng, s) ==
    \/ IsoClass(s) = "valid"
    \/ eng = "lenient" /\ \E i \in DOMAIN s : IsDigit(s[i])

\* new Date(Date.parse(s))
ParsedDate(eng, s) ==
    IF DateParses(eng, s) THEN DateValue("Date.parse", FALSE, << s >>) ELSE InvalidDate

(***************************************************************************)
(* date-format: the pattern table and detectDateParser                     *)
(***************************************************************************)
D == "d"

Rep(n) == [i \in 1..n |-> D]

\* RegExp.test for the anchored patterns of the table: D stands for \d,
\* every other element for itself
MatchShape(s, shape) ==
    /\ Len(s) = Len(shape)
    /\ \A i \in DOMAIN s : IF shape[i] = D THEN IsDigit(s[i]) ELSE s[i] = shape[i]

\* variant: the table without its two-digit hour row
patterns_noHour == <<
    [kind |-> "date-ymd", test |-> << D, D, D, D, "-", D, D, "-", D, D >>,
     fmt |-> << "Y", "-", "m", "-", "d" >>],
    [kind |-> "date-ym", test |-> << D, D, D, D, "-", D, D >>,
     fmt |-> << "Y", "-", "m" >>],
    [kind |-> "date-y", test |-> << D, D, D, D >>, fmt |-> << "Y" >>],
    [kind |-> "time-hms", test |-> << D, D, ":", D, D, ":", D, D >>,
     fmt |-> << "H", ":", "M", ":", "S" >>],
    [kind |-> "time-hm", test |-> << D, D, ":", D, D >>, fmt |-> << "H", ":", "M" >>],
    [kind |-> "epoch-seconds", test |-> Rep(10), fmt |-> << "s" >>],
    [kind |-> "epoch-millis", test |-> Rep(13), fmt |-> << "ms" >>],
    [kind |-> "epoch-micros", test |-> Rep(16), fmt |-> << "us" >>] >>

patterns == <<
    [kind |-> "date-ymd", test |-> << D, D, D, D, "-", D, D, "-", D, D >>,
     fmt |-> << "Y", "-", "m", "-", "d" >>],
    [kind |-> "date-ym", test |-> << D, D, D, D, "-", D, D >>,
     fmt |-> << "Y", "-", "m" >>],
    [kind |-> "date-y", test |-> << D, D, D, D >>, fmt |-> << "Y" >>],
    [kind |-> "time-hms", test |-> << D, D, ":", D, D, ":", D, D >>,
     fmt |-> << "H", ":", "M", ":", "S" >>],
    [kind |-> "time-hm", test |-> << D, D, ":", D, D >>, fmt |-> << "H", ":", "M" >>],
    [kind |-> "time-h", test |-> << D, D >>, fmt |-> << "H" >>],
    [kind |-> "epoch-seconds", test |-> Rep(10), fmt |-> << "s" >>],
    [kind |-> "epoch-millis", test |-> Rep(13), fmt |-> << "ms" >>],
    [kind |-> "epoch-micros", test |-> Rep(16), fmt |-> << "us" >>] >>

EpochKinds == {"epoch-seconds", "epoch-millis", "epoch-micros"}

\* /^-?\d+$/
IsSignedInteger(s) ==
    \/ s # << >> /\ AllDigits(s)
    \/ Len(s) >= 2 /\ s[1] = "-" /\ AllDigits(Tail(s))

\* a DateInfo: the parser (named by its kind) and isDate
DateInfo(kind, isDate) == [kind |-> kind, isDate |-> isDate]

\* the explicit patterns from index i on
RECURSIVE FirstPattern(_, _)
FirstPattern(smp, i) ==
    IF i > Len(patterns) THEN << >>
    ELSE IF MatchShape(smp, patterns[i].test)
    THEN << DateInfo(patterns[i].kind, TRUE) >>
    ELSE FirstPattern(smp, i + 1)

\* variant: the two fallbacks are tried before the explicit patterns
detectDateParser_fallbacksFirst(eng, smp) ==
    IF DateParses(eng, smp) THEN << DateInfo("iso-datetime", TRUE) >>
    ELSE IF IsSignedInteger(smp) THEN << DateInfo("plain-number", FALSE) >>
    ELSE FirstPattern(smp, 1)

\* variant: the integer fallback is tried before the Date.parse fallback
detectDateParser_integerFirst(eng, smp) ==
    IF FirstPattern(smp, 1) # << >> THEN FirstPattern(smp, 1)
    ELSE IF IsSignedInteger(smp) THEN << DateInfo("plain-number", FALSE) >>
    ELSE IF DateParses(eng, smp) THEN << DateInfo("iso-datetime", TRUE) >>
    ELSE << >>

\* detectDateParser(sample): << >> is null
detectDateParser(eng, smp) ==
    IF FirstPattern(smp, 1) # << >> THEN FirstPattern(smp, 1)
    ELSE IF DateParses(eng, smp) THEN << DateInfo("iso-datetime", TRUE) >>
    ELSE IF IsSignedInteger(smp) THEN << DateInfo("plain-number", FALSE) >>
    ELSE << >>

\* detector.parser(cell)
Parser(eng, kind, cell) ==
    LET at == {i \in DOMAIN patterns : patterns[i].kind = kind}
    IN  IF kind = "plain-number" THEN NumberValue(cell)
        ELSE IF kind = "iso-datetime" THEN ParsedDate(eng, cell)
        ELSE LET p == patterns[CHOOSE i \in at : TRUE]
             IN  IF kind \in EpochKinds THEN EpochDate(cell, p.fmt[1])
                 ELSE TimeParse(p.fmt, cell)

(***************************************************************************)
(* Validation helpers of the plugin                                        *)
(***************************************************************************)
\* variant: a line with fewer cells than the header counts as complete
isCompleteRow_atMost(cells, headerLen) == Len(cells) <= headerLen

isCompleteRow(cells, headerLen) == Len(cells) = headerLen

rowMatchesFormat(eng, cells, detector) ==
    LET xVal == Parser(eng, detector.kind, cells[1])
    IN  /\ IF detector.isDate
           THEN xVal.type = "Date" /\ xVal.valid
           ELSE xVal.type = "number" /\ xVal.valid
        /\ \A c \in 2..Len(cells) : IsFiniteNumber(cells[c])

(***************************************************************************)
(* The document tree (hast)                                                *)
(***************************************************************************)
\* every node carries the same fields; a text node has no tag and no
\* children, an <svg> built by buildSvg carries what it was built from
Element(tag, classes, kids) ==
    [type |-> "element", tagName |-> tag, className |-> classes,
     value |-> << >>, children |-> kids, chart |-> << >>]

TextNode(v) ==
    [type |-> "text", tagName |-> "", className |-> << >>,
     value |-> v, children |-> << >>, chart |-> << >>]

Root(kids) ==
    [type |-> "root", tagName |-> "", className |-> << >>,
     value |-> << >>, children |-> kids, chart |-> << >>]

\* the class name `language-${codeLanguage}`
LangClass(lang) == << "language-", lang >>

(***************************************************************************)
(* Plugin options: << >> is an omitted option                              *)
(***************************************************************************)
OptionOr(opt, dflt) == IF opt = << >> THEN dflt ELSE opt[1]

DefaultContainerClass == << "timeseries-chart-container" >>

containerClass(opts) == OptionOr(opts.containerClass, DefaultContainerClass)

codeLanguage(opts) == OptionOr(opts.codeLanguage, "csv")

\* variant: the original block is kept unless the option says otherwise
saveOriginal_defaultTrue(opts) == OptionOr(opts.saveOriginal, TRUE)

saveOriginal(opts) == OptionOr(opts.saveOriginal, FALSE)

(***************************************************************************)
(* Rows, series, chart                                                     *)
(***************************************************************************)
\* obj[key] = v on a plain object
Put(obj, key, v) ==
    [k \in (DOMAIN obj) \cup {key} |-> IF k = key THEN v ELSE obj[k]]

XKey == << "x" >>

\* { x }, then obj[headerCells[c]] = Number(cells[c]) for c = 1..headerLen-1
RECURSIVE FillRow(_, _, _, _)
FillRow(obj, headerCells, cells, c) ==
    IF c > Len(headerCells) THEN obj
    ELSE FillRow(Put(obj, headerCells[c], NumberValue(cells[c])), headerCells, cells, c + 1)

ParseRow(eng, detector, headerCells, cells) ==
    LET x == Parser(eng, detector.kind, cells[1])
    IN  FillRow([k \in {XKey} |-> x], headerCells, cells, 2)

\* variant: the points of a series run through the rows backwards
toSeries_reversed(rows, names) ==
    [n \in DOMAIN names |->
        [name   |-> names[n],
         values |-> [r \in DOMAIN rows |->
                        [x |-> rows[Len(rows) + 1 - r][XKey],
                         y |-> rows[Len(rows) + 1 - r][names[n]]]]]]

toSeries(rows, names) ==
    [n \in DOMAIN names |->
        [name   |-> names[n],
         values |-> [r \in DOMAIN rows |-> [x |-> rows[r][XKey], y |-> rows[r][names[n]]]]]]

(***************************************************************************)
(* buildSvg                                                                *)
(***************************************************************************)
\* d3-scale-chromatic schemeCategory10
schemeCategory10 == << "#1f77b4", "#ff7f0e", "#2ca02c", "#d62728", "#9467bd",
                       "#8c564b", "#e377c2", "#7f7f7f", "#bcbd22", "#17becf" >>

\* variant: the legend takes its colours one entry further on
LegendColor_shifted(i) == schemeCategory10[((i + 1) % Len(schemeCategory10)) + 1]

\* schemeCategory10[i % schemeCategory10.length] for the legend swatch of
\* series i, i counted from 0
LegendColor(i) == schemeCategory10[(i % Len(schemeCategory10)) + 1]

\* schemeCategory10[i % schemeCategory10.length] for the path of series i
StrokeColor(i) == schemeCategory10[(i % Len(schemeCategory10)) + 1]

\* el(tag, props, children): the properties an element is drawn with are
\* kept in its chart field
SvgEl(tag, props, kids) ==
    [type |-> "element", tagName |-> tag, className |-> << >>,
     value |-> << >>, children |-> kids, chart |-> << props >>]

\* the integer a number value stands for
ToInt(v) == IF v.neg THEN 0 - IntOf(v.parts[1]) ELSE IntOf(v.parts[1])

\* ys = series.flatMap(s => s.values.map(v => v.y))
AllYs(series) ==
    UNION {{ToInt(series[i].values[p].y) : p \in DOMAIN series[i].values} :
              i \in DOMAIN series}

\* max(ys) ?? 0
YMax(series) == IF AllYs(series) = {} THEN 0 ELSE SetMax(AllYs(series))

RECURSIVE Pow10(_)
Pow10(k) == IF k <= 0 THEN 1 ELSE 10 * Pow10(k - 1)

RECURSIVE NumDigits(_)
NumDigits(m) == IF m < 10 THEN 1 ELSE 1 + NumDigits(m \div 10)

\* the factor 10, 5, 2 or 1 of tickIncrement for an extent of m > 0 whose
\* leading power of ten is base: error >= sqrt(50), sqrt(10), sqrt(2)
TickFactor(m, base) ==
    IF m * m >= 50 * base * base THEN 10
    ELSE IF m * m >= 10 * base * base THEN 5
    ELSE IF m * m >= 2 * base * base THEN 2
    ELSE 1

\* d3-array tickIncrement(0, m, 10) for an integer m > 0: a step of at least
\* one as itself, a step 1/k below one as -k
tickIncrement(m) ==
    IF NumDigits(m) < 2
    THEN 0 - (10 \div TickFactor(m, 1))
    ELSE Pow10(NumDigits(m) - 2) * TickFactor(m, Pow10(NumDigits(m) - 1))

\* the loop of scale.nice() on the domain [0, stop], stop a positive
\* integer: the upper end is rounded up to a multiple of the step until the
\* step repeats; orig is left in place when the loop runs out
RECURSIVE NiceLoop(_, _, _, _)
NiceLoop(orig, stop, prestep, maxIter) ==
    IF maxIter = 0 THEN orig
    ELSE IF prestep = << tickIncrement(stop) >> THEN stop
    ELSE IF tickIncrement(stop) > 0
    THEN NiceLoop(orig,
                  ((stop + tickIncrement(stop) - 1) \div tickIncrement(stop))
                      * tickIncrement(stop),
                  << tickIncrement(stop) >>, maxIter - 1)
    ELSE NiceLoop(orig, stop, << tickIncrement(stop) >>, maxIter - 1)

\* the far end of scaleLinear().domain([0, m]).nice(): a domain that runs
\* downwards is niced as its mirror image, an empty extent is left alone
NiceEnd(m) ==
    IF m > 0 THEN NiceLoop(m, m, << >>, 10)
    ELSE IF m < 0 THEN 0 - NiceLoop(0 - m, 0 - m, << >>, 10)
    ELSE 0

\* M.top + h and M.top for the default height of 300
PlotBottom == 270

PlotTop == 40

\* yScale(v) for the domain [0, d1] and the range [PlotBottom, PlotTop], as
\* the fraction num / den with den > 0; a domain of no extent maps every
\* value to the middle of the range
yScale(v, d1) ==
    IF d1 = 0 THEN [num |-> (PlotBottom + PlotTop) \div 2, den |-> 1]
    ELSE IF d1 > 0
    THEN [num |-> PlotBottom * d1 - (PlotBottom - PlotTop) * v, den |-> d1]
    ELSE [num |-> PlotBottom * (0 - d1) + (PlotBottom - PlotTop) * v, den |-> 0 - d1]

\* the legend: for every series a swatch and its name, when there is more
\* than one series
Legend(series) ==
    IF Len(series) > 1
    THEN [k \in 1..(2 * Len(series)) |->
             IF k % 2 = 1
             THEN SvgEl("rect", [fill |-> LegendColor((k - 1) \div 2)], << >>)
             ELSE SvgEl("text", [fill |-> "#000"],
                        << TextNode(series[k \div 2].name) >>)]
    ELSE << >>

\* the x axis and the y axis
Axes == << SvgEl("line", [stroke |-> "#000"], << >>),
           SvgEl("line", [stroke |-> "#000"], << >>) >>

\* the data paths: the stroke of series i and the points gen() runs through
Paths(series, d1) ==
    [i \in DOMAIN series |->
        SvgEl("path",
              [stroke |-> StrokeColor(i - 1),
               d |-> [p \in DOMAIN series[i].values |->
                         [x |-> series[i].values[p].x,
                          y |-> yScale(ToInt(series[i].values[p].y), d1)]]],
              << >>)]

\* the <svg> element of buildSvg: the legend, the axes and the paths (the
\* ticks, drawn from the scales alone, are left out), with the series and
\* the axis kind it was built from
buildSvg(series, isDate, opts) ==
    [type |-> "element", tagName |-> "svg", className |-> << >>,
     value |-> << >>,
     children |-> Legend(series) \o Axes \o Paths(series, NiceEnd(YMax(series))),
     chart |-> << [series |-> series, isDate |-> isDate] >>]

(***************************************************************************)
(* The visitor of rehypeTimeseriesChart                                    *)
(***************************************************************************)
\* code.children.filter(text).map(value).join('\n')
RawText(code) ==
    LET texts == SelectSeq(code.children, LAMBDA c : c.type = "text")
    IN  JoinNL([i \in DOMAIN texts |-> texts[i].value])

\* variant: an incomplete line aborts like an invalid row
RowOutcome_incompleteAborts(eng, cells, headerLen, detector) ==
    IF ~isCompleteRow(cells, headerLen) THEN "ABORTED"
    ELSE IF ~rowMatchesFormat(eng, cells, detector) THEN "ABORTED"
    ELSE "CONTINUE"

\* variant: an invalid row ends the scan like an incomplete line
RowOutcome_invalidStops(eng, cells, headerLen, detector) ==
    IF ~isCompleteRow(cells, headerLen) THEN "STOPPED_OK"
    ELSE IF ~rowMatchesFormat(eng, cells, detector) THEN "STOPPED_OK"
    ELSE "CONTINUE"

\* one pass of the loop body of step 5 on the cells of a line
RowOutcome(eng, cells, headerLen, detector) ==
    IF ~isCompleteRow(cells, headerLen) THEN "STOPPED_OK"
    ELSE IF ~rowMatchesFormat(eng, cells, detector) THEN "ABORTED"
    ELSE "CONTINUE"

\* variant: a complete row that fails validation is skipped
RECURSIVE ScanRows_skipInvalid(_, _, _, _, _, _)
ScanRows_skipInvalid(eng, allLines, i, headerLen, detector, completed) ==
    IF i > Len(allLines) THEN [status |-> "END", completed |-> completed]
    ELSE LET cells   == Cells(allLines[i])
             outcome == RowOutcome(eng, cells, headerLen, detector)
         IN  IF outcome = "CONTINUE"
             THEN ScanRows_skipInvalid(eng, allLines, i + 1, headerLen, detector,
                                       Append(completed, cells))
             ELSE IF outcome = "ABORTED"
             THEN ScanRows_skipInvalid(eng, allLines, i + 1, headerLen, detector,
                                       completed)
             ELSE [status |-> outcome, completed |-> completed]

\* the scan of step 5, from line i on (lines are numbered from 1 here, the
\* header being line 1): the rows completed, and how the scan ended
RECURSIVE ScanRows(_, _, _, _, _, _)
ScanRows(eng, allLines, i, headerLen, detector, completed) ==
    IF i > Len(allLines) THEN [status |-> "END", completed |-> completed]
    ELSE LET cells   == Cells(allLines[i])
             outcome == RowOutcome(eng, cells, headerLen, detector)
         IN  IF outcome = "CONTINUE"
             THEN ScanRows(eng, allLines, i + 1, headerLen, detector,
                           Append(completed, cells))
             ELSE [status |-> outcome, completed |-> completed]

\* variant: any class on the <code> element is taken for the language class
HasLangClass_any(classes, opts) == classes # << >>

\* classes?.includes(langClass)
HasLangClass(classes, opts) ==
    \E k \in DOMAIN classes : classes[k] = LangClass(codeLanguage(opts))

\* variant: one completed row is enough
EnoughRows_one(completed) == Len(completed) >= 1

\* completed.length < 2 declines
EnoughRows(completed) == Len(completed) >= 2

\* variant: the loop starts after the row the detector was chosen from
FirstScanned_afterSample(allLines) == 3

\* for (let i = 1; ...): the loop starts at the first data row, line 2 when
\* the header is line 1
FirstScanned(allLines) == 2

\* what one call of the visitor does besides splicing: svg is << >> when
\* it returns without touching the tree and << svgNode >> when it goes on to
\* splice, log is what it wrote with console.debug
Outcome(svg, log) == [svg |-> svg, log |-> log]

\* the visitor wrote log and then went on as in rest
After(log, rest) == [svg |-> rest.svg, log |-> log \o rest.log]

\* console.debug(`rehypeTimeseriesChart: Processing CSV block:\n${raw}`)
ProcessingMsg(raw) == [msg |-> "Processing CSV block", line |-> 0, arg |-> raw]

\* console.debug(`rehypeTimeseriesChart: Incomplete row at line ${i}:`, cells)
\* and console.debug(`rehypeTimeseriesChart: Invalid row at line ${i}:`, cells)
\* on the line the scan ended at
ScanLog(allLines, scan) ==
    IF scan.status = "STOPPED_OK"
    THEN << [msg |-> "Incomplete row at line", line |-> Len(scan.completed) + 1,
             arg |-> Cells(allLines[Len(scan.completed) + 2])] >>
    ELSE IF scan.status = "ABORTED"
    THEN << [msg |-> "Invalid row at line", line |-> Len(scan.completed) + 1,
             arg |-> Cells(allLines[Len(scan.completed) + 2])] >>
    ELSE << >>

\* the end of step 5 and steps 6 and 7: the scan aborted, fewer than two
\* rows completed, or the completed rows are parsed and drawn
ChartOfScan(eng, opts, headerCells, detector, scan) ==
    IF scan.status = "ABORTED" THEN << >>
    ELSE IF ~EnoughRows(scan.completed) THEN << >>
    ELSE << buildSvg(toSeries([r \in DOMAIN scan.completed |->
                                  ParseRow(eng, detector, headerCells,
                                           scan.completed[r])],
                              Tail(headerCells)),
                     detector.isDate, opts) >>

\* the scan of step 5 with what it logs, and what follows it
ChartOfScanned(eng, opts, allLines, headerCells, detector, scan) ==
    Outcome(ChartOfScan(eng, opts, headerCells, detector, scan),
            ScanLog(allLines, scan))

\* the end of step 4 and the scan of step 5: no detector declines,
\* otherwise the rows are scanned from the second line on
ChartOfDetector(eng, opts, allLines, headerCells, detector) ==
    IF detector = << >> THEN Outcome(<< >>, << >>)
    ELSE ChartOfScanned(eng, opts, allLines, headerCells, detector[1],
                        ScanRows(eng, allLines, FirstScanned(allLines), Len(headerCells),
                                 detector[1], << >>))

\* step 3 on the header cells and the cells of the second line, then the
\* detection of step 4 on the first cell of the second line
ChartOfHeader(eng, opts, allLines, headerCells, secondRowCells) ==
    IF Len(headerCells) < 2 THEN Outcome(<< >>, << >>)
    ELSE IF Len(secondRowCells) # Len(headerCells) THEN Outcome(<< >>, << >>)
    ELSE ChartOfDetector(eng, opts, allLines, headerCells,
                         detectDateParser(eng, secondRowCells[1]))

\* the end of step 2 on the lines of the raw text, and the cells of step 3
ChartOfLines(eng, opts, allLines) ==
    IF Len(allLines) < 3 THEN Outcome(<< >>, << >>)
    ELSE ChartOfHeader(eng, opts, allLines, Cells(allLines[1]), Cells(allLines[2]))

\* step 2 on the raw text: it is logged, then split into lines
ChartOfRaw(eng, opts, raw) ==
    After(<< ProcessingMsg(raw) >>, ChartOfLines(eng, opts, Split(raw, NL)))

\* steps 1 to 7 of the visitor on one element
ChartOf(eng, opts, node) ==
    IF node.tagName # "pre" THEN Outcome(<< >>, << >>)
    ELSE IF node.children = << >> \/ node.children[1].tagName # "code"
    THEN Outcome(<< >>, << >>)
    ELSE IF ~HasLangClass(node.children[1].className, opts) THEN Outcome(<< >>, << >>)
    ELSE ChartOfRaw(eng, opts, RawText(node.children[1]))

\* step 8: what stands at idx after the visitor: the node itself when the
\* visitor returned early, otherwise what
\* parent.children.splice(idx, 1, ...) put there
Replacement(opts, svg, node) ==
    IF svg = << >> THEN node
    ELSE IF saveOriginal(opts)
    THEN Element("div", << containerClass(opts) >>, << svg[1], node >>)
    ELSE svg[1]

\* visit(tree, 'element', visitor): the children of one parent from offset
\* on.  After the visitor ran on a child the walk goes down into that child
\* (the node it was called with, wherever it now is) and then on to the
\* next index.
RECURSIVE VisitChildren(_, _, _, _)
RECURSIVE Visited(_, _, _)
Visited(eng, opts, node) ==
    Replacement(opts,
                IF node.type = "element" THEN ChartOf(eng, opts, node).svg ELSE << >>,
                [node EXCEPT !.children = VisitChildren(eng, opts, node.children, 1)])

\* variant: after a splice the walk goes on two places further
RECURSIVE VisitChildren_skipAfterSplice(_, _, _, _)
VisitChildren_skipAfterSplice(eng, opts, kids, offset) ==
    IF offset > Len(kids) THEN kids
    ELSE VisitChildren_skipAfterSplice(
             eng, opts,
             [kids EXCEPT ![offset] = Visited(eng, opts, kids[offset])],
             IF kids[offset].type = "element"
                    /\ ChartOf(eng, opts, kids[offset]).svg # << >>
             THEN offset + 2 ELSE offset + 1)

VisitChildren(eng, opts, kids, offset) ==
    IF offset > Len(kids) THEN kids
    ELSE VisitChildren(eng, opts,
                       [kids EXCEPT ![offset] = Visited(eng, opts, kids[offset])],
                       offset + 1)

\* what one run of visit(tree, 'element', visitor) writes to the console:
\* the visitor's messages, node by node in the order of the walk
RECURSIVE ConsoleOf(_, _, _)
RECURSIVE ConsoleOfChildren(_, _, _, _)
ConsoleOf(eng, opts, node) ==
    (IF node.type = "element" THEN ChartOf(eng, opts, node).log ELSE << >>)
        \o ConsoleOfChildren(eng, opts, node.children, 1)

ConsoleOfChildren(eng, opts, kids, offset) ==
    IF offset > Len(kids) THEN << >>
    ELSE ConsoleOf(eng, opts, kids[offset])
             \o ConsoleOfChildren(eng, opts, kids, offset + 1)

\* the transformer returned by rehypeTimeseriesChart(options)
Transformer(eng, opts, root) ==
    [root EXCEPT !.children = VisitChildren(eng, opts, root.children, 1)]

(***************************************************************************)
(* The streamed document                                                   *)
(***************************************************************************)
\* how many data lines a block grows to, and how long a generated key
\* sample is
MaxLines == 3

MaxSampleLen == 4

\* header lines: two columns, one column, three columns
Headers == {
    << "t", ",", " ", "v" >>,
    << "t" >>,
    << "d", ",", "a", ",", "b" >> }

\* data lines: two valid rows, a row with a bad value cell, a row with a bad
\* key cell, a blank line, a three-cell row
Lines == {
    << "1", "0", ",", "1" >>,
    << "7", ",", " ", "2" >>,
    << "1", "2", ",", "a" >>,
    << "a", ",", "2" >>,
    << >>,
    << "1", "0", ",", "1", ",", "2" >> }

\* no scan is under way
NoScan == [lines |-> << >>, i |-> 0, completed |-> << >>, status |-> "IDLE",
           seen |-> << >>]

NoOptions == [saveOriginal |-> << >>, containerClass |-> << >>, codeLanguage |-> << >>]

OptionSets == {
    NoOptions,
    [saveOriginal |-> << TRUE >>, containerClass |-> << >>, codeLanguage |-> << >>],
    [saveOriginal |-> << TRUE >>, containerClass |-> << << "box" >> >>,
     codeLanguage |-> << "js" >>],
    [saveOriginal |-> << FALSE >>, containerClass |-> << >>, codeLanguage |-> << "js" >>] }

Code(lang, t) == Element("code", << LangClass(lang) >>, << TextNode(t) >>)

Paragraph == Element("p", << >>, << TextNode(<< "a" >>) >>)

\* the tree the host parses from the document: the block, once as a csv
\* block and once under every way of not being one, between two paragraphs
DocOf(t) ==
    Root(<< Paragraph,
            Element("pre", << >>, << Code("csv", t) >>),
            Element("div", << >>, << Code("csv", t) >>),
            Element("pre", << >>, << Code("js", t) >>),
            Element("pre", << >>, << TextNode(t) >>),
            Paragraph >>)

DataLines(t) == Cardinality({i \in DOMAIN t : t[i] = NL})

Init ==
    /\ text \in Headers
    /\ options \in OptionSets
    /\ engine \in Engines
    /\ tree = Transformer(engine, options, DocOf(text))
    /\ console = ConsoleOf(engine, options, DocOf(text))
    /\ sample = << >>
    /\ detected = << >>
    /\ chartData = << >>
    /\ scanState = NoScan
    /\ pc = "stream"

\* one more line arrives and the host runs the transformer on the document
\* again
Stream(l) ==
    /\ pc = "stream"
    /\ DataLines(text) < MaxLines
    /\ text' = text \o << NL >> \o l
    /\ tree' = Transformer(engine, options, DocOf(text'))
    /\ console' = console \o ConsoleOf(engine, options, DocOf(text'))
    /\ UNCHANGED <<options, engine, sample, detected, pc, chartData, scanState>>

Next == \E l \in Lines : Stream(l)

Spec == Init /\ [][Next]_vars

(***************************************************************************)
(* The detector on its own                                                 *)
(***************************************************************************)
SampleChars == {"1", "9", "-", ":", "a"}

Str_10 == << "1", "0" >>

Str_2024_01 == << "2", "0", "2", "4", "-", "0", "1" >>

Digits10 == << "1", "7", "0", "0", "0", "0", "0", "0", "0", "0" >>

Digits13 == Digits10 \o Zeros3

Digits16 == Digits13 \o Zeros3

Samples ==
    UNION {[1..n -> SampleChars] : n \in 0..MaxSampleLen}
    \cup { Str_10, Str_2024_01, Digits10, Digits13, Digits16,
           << "7" >>, << "-", "7" >>,
           << "2", "0", "2", "4", "-", "0", "1", "-", "3", "1" >>,
           << "1", "2", ":", "3", "0", ":", "0", "5" >>,
           Digits10 \o << "0" >>,
           << "-", "0", "0", "0", "0", "0", "1" >> }

DetectInit ==
    /\ sample \in Samples
    /\ engine \in Engines
    /\ detected = << >>
    /\ pc = "idle"
    /\ text = << >>
    /\ options = NoOptions
    /\ tree = Root(<< >>)
    /\ console = << >>
    /\ chartData = << >>
    /\ scanState = NoScan

Detect ==
    /\ pc = "idle"
    /\ detected' = detectDateParser(engine, sample)
    /\ pc' = "detected"
    /\ UNCHANGED <<text, tree, options, engine, sample, chartData, console, scanState>>

DetectNext == Detect

DetectSpec == DetectInit /\ [][DetectNext]_vars

(***************************************************************************)
(* buildSvg on its own                                                     *)
(***************************************************************************)
\* how many series a chart is built from
MaxSeries == 11

\* value cells: two negative numbers, zero, two positive numbers
ChartYs == { << "-", "5" >>, << "-", "1" >>, << "0" >>, << "2" >>, << "1", "5" >> }

\* n series of two points each: the odd series run through ys, the even
\* series through ys backwards
SeriesOf(n, ys) ==
    [i \in 1..n |->
        [name   |-> << "s" >>,
         values |-> [p \in 1..2 |->
                        [x |-> NumberValue(<< IF p = 1 THEN "1" ELSE "2" >>),
                         y |-> NumberValue(ys[IF i % 2 = 1 THEN p ELSE 3 - p])]]]]

ChartInit ==
    /\ chartData \in {SeriesOf(n, ys) : n \in 0..MaxSeries, ys \in [1..2 -> ChartYs]}
    /\ tree = Root(<< >>)
    /\ pc = "idle"
    /\ text = << >>
    /\ options = NoOptions
    /\ engine = "strict"
    /\ sample = << >>
    /\ detected = << >>
    /\ console = << >>
    /\ scanState = NoScan

Build ==
    /\ pc = "idle"
    /\ tree' = buildSvg(chartData, FALSE, options)
    /\ pc' = "built"
    /\ UNCHANGED <<text, options, engine, sample, detected, chartData, console, scanState>>

ChartNext == Build

ChartSpec == ChartInit /\ [][ChartNext]_vars

(***************************************************************************)
(* The loop of step 5, one pass at a time                                  *)
(***************************************************************************)
\* how many data lines the scanned block has
MaxScanLines == 4

\* data lines: two valid rows, a blank line, a row with a bad value cell
ScanLines == {
    << "1", "0", ",", "1" >>,
    << "7", ",", " ", "2" >>,
    << >>,
    << "1", "2", ",", "a" >> }

\* the header t,v and then the data lines, every line on its own
RECURSIVE BlockText(_)
BlockText(ls) ==
    IF ls = << >> THEN << "t", ",", "v" >>
    ELSE BlockText(SubSeq(ls, 1, Len(ls) - 1)) \o << NL >> \o ls[Len(ls)]

ScanTexts ==
    {BlockText(ls) : ls \in UNION {[1..n -> ScanLines] : n \in 0..MaxScanLines}}

\* the document of one csv block
BlockDoc(t) == Root(<< Element("pre", << >>, << Code("csv", t) >>) >>)

\* steps 2 to 4 let the visitor through to the loop of step 5
ReachesScan(eng, allLines) ==
    /\ Len(allLines) >= 3
    /\ Len(Cells(allLines[1])) >= 2
    /\ Len(Cells(allLines[2])) = Len(Cells(allLines[1]))
    /\ detectDateParser(eng, Cells(allLines[2])[1]) # << >>

\* headerCells and detector, as the loop reads them
HeaderCellsOf(st) == Cells(st.lines[1])

DetectorOf(eng, st) == detectDateParser(eng, Cells(st.lines[2])[1])[1]

\* one pass of the loop body on line st.i with the outcome of its checks:
\* break and return leave i where it is, completed.push(cells) is followed
\* by i++
StepOn(st, cells, outcome) ==
    [lines     |-> st.lines,
     i         |-> IF outcome = "CONTINUE" THEN st.i + 1 ELSE st.i,
     completed |-> IF outcome = "CONTINUE" THEN Append(st.completed, cells)
                   ELSE st.completed,
     status    |-> outcome,
     seen      |-> Append(st.seen, st.i)]

ScanInit ==
    /\ text \in ScanTexts
    /\ engine \in Engines
    /\ options \in {NoOptions}
    /\ tree = BlockDoc(text)
    /\ scanState = NoScan
    /\ pc = "visit"
    /\ console = << >>
    /\ sample = << >>
    /\ detected = << >>
    /\ chartData = << >>

\* the visitor passes steps 1 to 4: const completed = [], let i = 1
EnterLoop ==
    /\ pc = "visit"
    /\ ReachesScan(engine, Split(text, NL))
    /\ scanState' = [lines |-> Split(text, NL), i |-> FirstScanned(Split(text, NL)),
                     completed |-> << >>,
                     status |-> "CONTINUE", seen |-> << >>]
    /\ console' = << ProcessingMsg(text) >>
    /\ pc' = "scan"
    /\ UNCHANGED <<text, tree, options, engine, sample, detected, chartData>>

\* i < allLines.length fails and the loop is left, or the loop body runs on
\* line i
LoopStep ==
    /\ pc = "scan"
    /\ scanState.status = "CONTINUE"
    /\ scanState' =
          IF scanState.i > Len(scanState.lines)
          THEN [scanState EXCEPT !.status = "END"]
          ELSE StepOn(scanState, Cells(scanState.lines[scanState.i]),
                      RowOutcome(engine, Cells(scanState.lines[scanState.i]),
                                 Len(HeaderCellsOf(scanState)),
                                 DetectorOf(engine, scanState)))
    /\ UNCHANGED <<text, tree, options, engine, sample, detected, chartData,
                   console, pc>>

\* after the loop: the rest of step 5 and steps 6 to 8
LeaveLoop ==
    /\ pc = "scan"
    /\ scanState.status # "CONTINUE"
    /\ tree' = Root(<< Replacement(options,
                                   ChartOfScan(engine, options, HeaderCellsOf(scanState),
                                               DetectorOf(engine, scanState), scanState),
                                   tree.children[1]) >>)
    /\ console' = console \o ScanLog(scanState.lines, scanState)
    /\ pc' = "done"
    /\ UNCHANGED <<text, options, engine, sample, detected, chartData, scanState>>

ScanNext == EnterLoop \/ LoopStep \/ LeaveLoop

ScanSpec == ScanInit /\ [][ScanNext]_vars

(***************************************************************************)
(* Steps 6 to 8 on the rows a scan completed                               *)
(***************************************************************************)
\* how many rows the scan completed
MaxRows == 3

\* headers: two columns, three columns, a value column labelled x, two
\* value columns of one label
RowHeaders == {
    << "t", ",", "v" >>,
    << "d", ",", "a", ",", "b" >>,
    << "t", ",", "x" >>,
    << "d", ",", "a", ",", "a" >> }

\* valid rows of two and of three cells: keys that go down, a key twice
RowLines(header) ==
    IF Len(Cells(header)) = 2
    THEN { << "1", "0", ",", "1" >>, << "7", ",", " ", "2" >>, << "1", "0", ",", "5" >> }
    ELSE { << "1", "0", ",", "1", ",", "2" >>, << "7", ",", "3", ",", "4" >>,
           << "1", "0", ",", "5", ",", "6" >> }

\* the header and then the rows, every line on its own
RECURSIVE TextOf(_, _)
TextOf(header, ls) ==
    IF ls = << >> THEN header
    ELSE TextOf(header, SubSeq(ls, 1, Len(ls) - 1)) \o << NL >> \o ls[Len(ls)]

RowTexts ==
    UNION {{TextOf(h, ls) : ls \in UNION {[1..n -> RowLines(h)] : n \in 2..MaxRows}} :
              h \in RowHeaders}

\* the loop of step 5 has run through every line of the block and found
\* every row valid
ScannedAll(allLines) ==
    [lines     |-> allLines,
     i         |-> Len(allLines) + 1,
     completed |-> [r \in 1..(Len(allLines) - 1) |-> Cells(allLines[r + 1])],
     status    |-> "END",
     seen      |-> [r \in 1..(Len(allLines) - 1) |-> r + 1]]

RowsInit ==
    /\ text \in RowTexts
    /\ engine \in Engines
    /\ options \in {NoOptions}
    /\ tree = BlockDoc(text)
    /\ scanState = ScannedAll(Split(text, NL))
    /\ pc = "scan"
    /\ console = << ProcessingMsg(text) >>
    /\ sample = << >>
    /\ detected = << >>
    /\ chartData = << >>

RowsNext == LeaveLoop

RowsSpec == RowsInit /\ [][RowsNext]_vars

(***************************************************************************)
(* A block that is typed, one character at a time                          *)
(***************************************************************************)
\* how many characters are typed after the start of the block
MaxTyped == 5

\* the header, two valid rows and the start of a third line
TypeStart == << "t", ",", "v", NL, "1", ",", "1", NL, "2", ",", "2", NL >>

TypeChars == {"1", ",", "-", NL}

TypeInit ==
    /\ text = TypeStart
    /\ options \in {NoOptions,
                    [saveOriginal |-> << TRUE >>, containerClass |-> << >>,
                     codeLanguage |-> << >>]}
    /\ engine \in Engines
    /\ tree = Transformer(engine, options, BlockDoc(text))
    /\ console = ConsoleOf(engine, options, BlockDoc(text))
    /\ pc = "type"
    /\ sample = << >>
    /\ detected = << >>
    /\ chartData = << >>
    /\ scanState = NoScan

\* one more character arrives and the host runs the transformer on the
\* document again
Type(c) ==
    /\ pc = "type"
    /\ Len(text) < Len(TypeStart) + MaxTyped
    /\ text' = Append(text, c)
    /\ tree' = Transformer(engine, options, BlockDoc(text'))
    /\ console' = console \o ConsoleOf(engine, options, BlockDoc(text'))
    /\ UNCHANGED <<options, engine, sample, detected, pc, chartData, scanState>>

TypeNext == \E c \in TypeChars : Type(c)

TypeSpec == TypeInit /\ [][TypeNext]_vars

(***************************************************************************)
(* One pass over a document of several blocks                              *)
(***************************************************************************)
\* how many items the document has at its top level
MaxItems == 3

\* a block of two valid rows, one of three valid rows, one of a single row,
\* one whose second row has a bad value cell
TextA == << "t", ",", "v", NL, "1", "0", ",", "1", NL, "7", ",", "2" >>

TextB == TextA \o << NL, "1", "2", ",", "3" >>

TextShort == << "t", ",", "v", NL, "1", "0", ",", "1" >>

TextBad == TextA \o << NL, "1", "2", ",", "a" >>

Pre(t) == Element("pre", << >>, << Code("csv", t) >>)

\* what stands at the top level of a document: an accepted block, another
\* one, a block that is declined, a block that aborts, a paragraph, and a
\* <div> holding an accepted block, a <div> with an accepted block of its
\* own and a declined block
Items == {
    Pre(TextA), Pre(TextB), Pre(TextShort), Pre(TextBad), Paragraph,
    Element("div", << >>,
            << Pre(TextA), Element("div", << >>, << Pre(TextB) >>), Pre(TextShort) >>) }

Documents == {Root(kids) : kids \in UNION {[1..n -> Items] : n \in 0..MaxItems}}

TreeInit ==
    /\ tree \in Documents
    /\ options \in {NoOptions,
                    [saveOriginal |-> << TRUE >>, containerClass |-> << >>,
                     codeLanguage |-> << >>]}
    /\ engine \in Engines
    /\ pc = "parsed"
    /\ console = << >>
    /\ text = << >>
    /\ sample = << >>
    /\ detected = << >>
    /\ chartData = << >>
    /\ scanState = NoScan

\* the host runs the transformer on the tree, once
Transform ==
    /\ pc = "parsed"
    /\ tree' = Transformer(engine, options, tree)
    /\ console' = ConsoleOf(engine, options, tree)
    /\ pc' = "transformed"
    /\ UNCHANGED <<text, options, engine, sample, detected, chartData, scanState>>

TreeNext == Transform

TreeSpec == TreeInit /\ [][TreeNext]_vars

(***************************************************************************)
(* The block as the claims speak of it                                     *)
(***************************************************************************)
\* A block text read line by line, the header being line 1:
\*   rows      the trimmed cells of every line
\*   n         the number of header cells
\*   chosen    the descriptor chosen from the key cell of the first data row
\*   complete  line i has as many cells as the header
\*   valid     line i is a complete row whose key cell parses under the
\*             chosen descriptor and whose value cells are finite numbers
\*   bad       the data lines that are not valid complete rows
BlockOf(eng, t) ==
    LET lines  == Split(t, NL)
        rows   == [i \in DOMAIN lines |-> Cells(lines[i])]
        n      == Len(rows[1])
        chosen == IF Len(rows) >= 2 THEN detectDateParser(eng, rows[2][1]) ELSE << >>
        complete == [i \in DOMAIN rows |-> Len(rows[i]) = n]
        valid  == [i \in DOMAIN rows |->
                      /\ i >= 2
                      /\ complete[i]
                      /\ chosen # << >>
                      /\ rowMatchesFormat(eng, rows[i], chosen[1])]
    IN  [rows |-> rows, n |-> n, chosen |-> chosen, complete |-> complete,
         valid |-> valid, bad |-> {i \in 2..Len(rows) : ~valid[i]}]

\* the number of valid complete rows before the first line that is not one
LeadingValidIn(b) ==
    IF b.bad = {} THEN Len(b.rows) - 1 ELSE SetMin(b.bad) - 2

\* the first line that is not a valid complete row is a complete row
AbortCaseIn(b) ==
    /\ b.n >= 2
    /\ Len(b.rows) >= 3
    /\ b.chosen # << >>
    /\ b.bad # {}
    /\ b.complete[SetMin(b.bad)]

\* none of the ways of declining applies
AcceptedIn(b) ==
    /\ Len(b.rows) >= 3
    /\ b.n >= 2
    /\ b.complete[2]
    /\ b.chosen # << >>
    /\ ~AbortCaseIn(b)
    /\ LeadingValidIn(b) >= 2

\* k >= 2 valid rows and then a last line of another cell count
TrailingCaseIn(b) ==
    /\ b.n >= 2
    /\ Len(b.rows) >= 4
    /\ \A i \in 2..(Len(b.rows) - 1) : b.valid[i]
    /\ ~b.complete[Len(b.rows)]

Block == BlockOf(engine, text)

\* where the block that carries the configured language class sits
TargetIdx == IF options.codeLanguage = << >> THEN 2 ELSE 4

Original == DocOf(text)

Shown == tree.children[TargetIdx]

\* the node is an <svg>, alone or first in its container
IsChart(node) ==
    \/ node.tagName = "svg"
    \/ node.tagName = "div" /\ node.children # << >> /\ node.children[1].tagName = "svg"

\* a chart stands in place of the block
HasChart == IsChart(Shown)

ChartNode == IF Shown.tagName = "svg" THEN Shown ELSE Shown.children[1]

\* C1 (abort law): with a header of at least two columns, when the first line
\* that is not a valid complete row is a complete row that fails validation,
\* there is no chart, however many valid rows come before or after it.
C1_AbortLaw == (pc = "stream" /\ AbortCaseIn(Block)) => ~HasChart

\* two valid rows, then a complete row that fails: no chart
C1_Witness ==
    /\ pc = "stream"
    /\ AbortCaseIn(Block)
    /\ LeadingValidIn(Block) >= 2
    /\ ~HasChart

\* the point row i gives the series of column c
PointOf(eng, b, i, c) ==
    [x |-> Parser(eng, b.chosen[1].kind, b.rows[i][1]),
     y |-> NumberValue(b.rows[i][c])]

\* C2 (streaming tolerance): a header of n >= 2 columns, k >= 2 valid complete
\* rows and a last line whose cell count is not n give a chart whose series
\* hold exactly the k rows, in input order; the last line adds no point.
C2_StreamingTolerance ==
    LET b == Block
        k == Len(b.rows) - 2
    IN  (pc = "stream" /\ TrailingCaseIn(b)) =>
            /\ HasChart
            /\ Len(ChartNode.chart[1].series) = b.n - 1
            /\ \A c \in DOMAIN ChartNode.chart[1].series :
                  /\ Len(ChartNode.chart[1].series[c].values) = k
                  /\ \A j \in 1..k :
                        ChartNode.chart[1].series[c].values[j]
                            = PointOf(engine, b, j + 1, c + 1)

\* two or more valid rows and a last line that is dropped
C2_Witness ==
    /\ pc = "stream"
    /\ TrailingCaseIn(Block)
    /\ HasChart
    /\ Len(ChartNode.chart[1].series[1].values) = Len(Block.rows) - 2

\* C3 (minimum size): a chart is produced only if the header has at least two
\* columns, the first data row has the header's cell count and at least two
\* valid complete rows were accumulated.
C3_MinimumSize ==
    LET b == Block
    IN  (pc = "stream" /\ HasChart) =>
            /\ b.n >= 2
            /\ Len(b.rows) >= 3
            /\ b.complete[2]
            /\ LeadingValidIn(b) >= 2

\* one valid row and then a line that ends the scan: no chart
C3_Witness ==
    LET b == Block
    IN  /\ pc = "stream"
        /\ b.n >= 2
        /\ Len(b.rows) >= 3
        /\ LeadingValidIn(b) = 1
        /\ ~AbortCaseIn(b)
        /\ ~HasChart

\* C4 (declined blocks are untouched): every node that is not the block with
\* the configured language class is as it was, and on every way of declining
\* the whole tree is as the host parsed it.
C4_DeclinedUntouched ==
    pc = "stream" =>
        /\ Len(tree.children) = Len(Original.children)
        /\ \A i \in DOMAIN tree.children :
              i # TargetIdx => tree.children[i] = Original.children[i]
        /\ ~AcceptedIn(Block) => tree = Original

\* the validator aborts after two valid rows and the tree is as it was
C4_Witness ==
    /\ pc = "stream"
    /\ AbortCaseIn(Block)
    /\ LeadingValidIn(Block) >= 2
    /\ tree = Original

C9_NoFlicker == [][HasChart => HasChart']_vars

\* C10 (abort stability): once the block has no chart because a complete row
\* failed validation, it has none after any further line is appended.
C10_AbortStable ==
    [][AbortCaseIn(BlockOf(engine, text)) =>
          (AbortCaseIn(BlockOf(engine', text')) /\ ~HasChart')]_vars

\* the first data row fails, two valid rows follow it, and there is no chart
C10_Witness ==
    LET b == Block
    IN  /\ pc = "stream"
        /\ AbortCaseIn(b)
        /\ SetMin(b.bad) = 2
        /\ Len(b.rows) >= 4
        /\ \A i \in 3..Len(b.rows) :
              b.complete[i] /\ rowMatchesFormat(engine, b.rows[i], b.chosen[1])
        /\ ~HasChart

(***************************************************************************)
(* The detector                                                            *)
(***************************************************************************)
\* the sample matches one of the explicit patterns
Explicit(smp) == \E i \in DOMAIN patterns : MatchShape(smp, patterns[i].test)

DigitsOfWidth(smp, w) == Len(smp) = w /\ AllDigits(smp)

\* C6 (priority and digit width): the detector returns the descriptor of the
\* first explicit pattern, in table order, that the sample matches; 2024-01
\* is date-ym, and a sample of 10, 13 or 16 digits is epoch-seconds,
\* epoch-millis or epoch-micros, never plain-number.
C6_PriorityAndWidth ==
    pc = "detected" =>
        /\ \A i \in DOMAIN patterns :
              ( /\ MatchShape(sample, patterns[i].test)
                /\ \A j \in 1..(i - 1) : ~MatchShape(sample, patterns[j].test) )
              => detected = << [kind |-> patterns[i].kind, isDate |-> TRUE] >>
        /\ [i \in DOMAIN patterns |-> patterns[i].kind]
              = << "date-ymd", "date-ym", "date-y", "time-hms", "time-hm", "time-h",
                   "epoch-seconds", "epoch-millis", "epoch-micros" >>
        /\ sample = Str_2024_01 => detected = << [kind |-> "date-ym", isDate |-> TRUE] >>
        /\ DigitsOfWidth(sample, 10)
              => detected = << [kind |-> "epoch-seconds", isDate |-> TRUE] >>
        /\ DigitsOfWidth(sample, 13)
              => detected = << [kind |-> "epoch-millis", isDate |-> TRUE] >>
        /\ DigitsOfWidth(sample, 16)
              => detected = << [kind |-> "epoch-micros", isDate |-> TRUE] >>

\* a ten-digit sample has been classified
C6_Witness ==
    /\ pc = "detected"
    /\ sample = Digits10
    /\ detected # << >>
    /\ detected[1].kind = "epoch-seconds"

\* C7 (scenario C, as claimed): the key sample 10 is classified plain-number,
\* the axis being non-temporal.
C7_SampleTenIsPlainNumber ==
    (pc = "detected" /\ sample = Str_10) =>
        detected = << [kind |-> "plain-number", isDate |-> FALSE] >>

\* C7 (amended): the key sample 10 matches the two-digit hour pattern; the
\* chosen descriptor is time-h and the axis is temporal.
C7_SampleTenIsHour ==
    (pc = "detected" /\ sample = Str_10) =>
        detected = << [kind |-> "time-h", isDate |-> TRUE] >>

C7_Witness ==
    /\ pc = "detected"
    /\ sample = Str_10
    /\ detected # << >>
    /\ detected[1].isDate

Drawn(node, tag) == SelectSeq(node.children, LAMBDA c : c.tagName = tag)

\* C11 (colour consistency): in a built chart of N series the stroke of the
\* path of series i is entry i mod 10 of the palette of ten entries; when a
\* legend is drawn (N > 1) the swatch of series i is filled with the same
\* entry; for N <= 10 the strokes are pairwise distinct.
C11_ColourConsistency ==
    pc = "built" =>
        /\ Len(schemeCategory10) = 10
        /\ Len(Drawn(tree, "path")) = Len(chartData)
        /\ Len(Drawn(tree, "rect")) = IF Len(chartData) > 1 THEN Len(chartData) ELSE 0
        /\ \A i \in DOMAIN chartData :
              /\ Drawn(tree, "path")[i].chart[1].stroke = schemeCategory10[((i - 1) % 10) + 1]
              /\ Len(chartData) > 1 =>
                    Drawn(tree, "rect")[i].chart[1].fill
                        = Drawn(tree, "path")[i].chart[1].stroke
        /\ Len(chartData) <= 10 =>
              \A i, j \in DOMAIN chartData :
                  i # j => Drawn(tree, "path")[i].chart[1].stroke
                               # Drawn(tree, "path")[j].chart[1].stroke

\* eleven series: the eleventh is drawn and keyed in the first colour again
C11_Witness ==
    /\ pc = "built"
    /\ Len(chartData) = 11
    /\ Drawn(tree, "rect")[11].chart[1].fill = schemeCategory10[1]
    /\ Drawn(tree, "path")[11].chart[1].stroke = schemeCategory10[1]

\* C12 (purity and determinism): a run of the transformer is a function of
\* the block text and the options alone and performs no I/O: nothing is
\* written to the console, however many times the transformer has run.
C12_NoConsoleOutput == pc = "stream" => console = << >>

\* C13 (scan state machine): the loop examines the data lines in input
\* order, one after the other, and stops for good at the first line that is
\* not a valid complete row: no later line is examined.  When that line has
\* another cell count than the header the scan ends STOPPED_OK, whatever
\* follows it (an invalid complete row after it does not abort), and the
\* chart is built from exactly the rows before it when there are at least
\* two; the run ends as the transformer on the whole block ends.
C13_ScanStateMachine ==
    LET b    == BlockOf(engine, text)
        seen == scanState.seen
    IN  scanState.status # "IDLE" =>
            /\ seen = [k \in 1..Len(seen) |-> k + 1]
            /\ Len(seen) <= (IF b.bad = {} THEN Len(b.rows) ELSE SetMin(b.bad)) - 1
            /\ pc = "done" =>
                  /\ Len(seen) = (IF b.bad = {} THEN Len(b.rows) ELSE SetMin(b.bad)) - 1
                  /\ tree = Transformer(engine, options, BlockDoc(text))
                  /\ (b.bad # {} /\ ~b.complete[SetMin(b.bad)]) =>
                        /\ scanState.status = "STOPPED_OK"
                        /\ scanState.completed = SubSeq(b.rows, 2, SetMin(b.bad) - 1)
                        /\ LeadingValidIn(b) >= 2 =>
                              /\ tree.children[1].tagName = "svg"
                              /\ Len(tree.children[1].chart[1].series[1].values)
                                     = LeadingValidIn(b)

\* two valid rows, a blank line, then a complete row that fails validation:
\* the chart of the two rows
C13_Witness ==
    /\ pc = "done"
    /\ Len(scanState.lines) = 5
    /\ scanState.seen = << 2, 3, 4 >>
    /\ scanState.lines[4] = << >>
    /\ ~rowMatchesFormat(engine, Cells(scanState.lines[5]), DetectorOf(engine, scanState))
    /\ Len(Cells(scanState.lines[5])) = 2
    /\ tree.children[1].tagName = "svg"
    /\ Len(tree.children[1].chart[1].series[1].values) = 2

\* the series of the chart that stands in place of the one block
SeriesShown == tree.children[1].chart[1].series

\* the object step 6 makes of completed row j
ParsedShown(j) ==
    ParseRow(engine, DetectorOf(engine, scanState), HeaderCellsOf(scanState),
             scanState.completed[j])

\* C14 (SeriesBuilder shape): from a header of n columns and m completed
\* rows the chart has exactly n-1 series, named by the header labels 2..n in
\* header order, each of exactly m points, point j being made of parsed row
\* j: the rows are not sorted, merged or dropped.
C14_SeriesShape ==
    pc = "done" =>
        /\ tree.children[1].tagName = "svg"
        /\ Len(SeriesShown) = Len(HeaderCellsOf(scanState)) - 1
        /\ \A c \in DOMAIN SeriesShown :
              /\ SeriesShown[c].name = HeaderCellsOf(scanState)[c + 1]
              /\ Len(SeriesShown[c].values) = Len(scanState.completed)
              /\ \A j \in DOMAIN scanState.completed :
                    SeriesShown[c].values[j]
                        = [x |-> ParsedShown(j)[XKey],
                           y |-> ParsedShown(j)[HeaderCellsOf(scanState)[c + 1]]]

\* three rows, the key going down and coming back: three points in that
\* order
C14_Witness ==
    /\ pc = "done"
    /\ HeaderCellsOf(scanState) = << << "d" >>, << "a" >>, << "b" >> >>
    /\ Len(SeriesShown) = 2
    /\ Len(scanState.completed) = 3
    /\ [j \in 1..3 |-> scanState.completed[j][1]]
           = << << "1", "0" >>, << "7" >>, << "1", "0" >> >>
    /\ [j \in 1..3 |-> SeriesShown[2].values[j].y]
           = << NumberValue(<< "2" >>), NumberValue(<< "4" >>), NumberValue(<< "6" >>) >>

\* C17 (cell fidelity): in a produced chart, point j of the series of value
\* column c has the parsed key cell of row j as x and the number of cell c
\* of row j as y, whatever the header labels are.
C17_CellFidelity ==
    pc = "done" =>
        \A c \in DOMAIN SeriesShown :
            \A j \in DOMAIN scanState.completed :
                SeriesShown[c].values[j]
                    = [x |-> Parser(engine, DetectorOf(engine, scanState).kind,
                                    scanState.completed[j][1]),
                       y |-> NumberValue(scanState.completed[j][c + 1])]

\* C15 (larger values plot higher): in a built chart, for every two
\* plotted values a < b, of one series or of two, the vertical coordinate of
\* b is at or above that of a (SVG y of b <= SVG y of a), for every finite
\* value, negative ones included.
C15_LargerPlotsHigher ==
    pc = "built" =>
        \A i, k \in DOMAIN chartData :
            \A p \in DOMAIN chartData[i].values, q \in DOMAIN chartData[k].values :
                ToInt(chartData[i].values[p].y) < ToInt(chartData[k].values[q].y) =>
                    Drawn(tree, "path")[k].chart[1].d[q].y.num
                            * Drawn(tree, "path")[i].chart[1].d[p].y.den
                        <= Drawn(tree, "path")[i].chart[1].d[p].y.num
                            * Drawn(tree, "path")[k].chart[1].d[q].y.den

\* C16 (the first data row is validated like every other): the scan starts
\* at the row the descriptor was chosen from, so when that row is complete
\* and fails validation (its key does not parse under the descriptor, or a
\* value cell is not a finite number) there is no chart, and every chart
\* that is shown has that row as its first point.
C16_FirstRowValidated ==
    LET b == Block
    IN  pc = "stream" =>
            /\ (b.n >= 2 /\ Len(b.rows) >= 2 /\ b.complete[2] /\ b.chosen # << >>
                    /\ ~b.valid[2]) => ~HasChart
            /\ HasChart =>
                  /\ b.valid[2]
                  /\ \A c \in DOMAIN ChartNode.chart[1].series :
                        ChartNode.chart[1].series[c].values[1]
                            = PointOf(engine, b, 2, c + 1)

\* a first data row with a bad value cell and two valid rows after it: no
\* chart
C16_Witness ==
    /\ pc = "stream"
    /\ Len(Block.rows) = 4
    /\ Block.complete[2] /\ Block.chosen # << >> /\ ~Block.valid[2]
    /\ Block.valid[3] /\ Block.valid[4]
    /\ ~HasChart

\* a chart stands in place of the one block of the document
BlockCharted(t) == IsChart(t.children[1])

\* the <svg> of that chart
BlockChart(t) ==
    IF t.children[1].tagName = "svg" THEN t.children[1] ELSE t.children[1].children[1]

\* C18 (empty value cells): a complete row with an empty value cell is not
\* accepted as a valid row, so no row that gave a chart its points has an
\* empty value cell.
C18_NoEmptyValueCell ==
    LET b == BlockOf(engine, text)
    IN  (pc = "type" /\ BlockCharted(tree)) =>
            \A j \in 1..Len(BlockChart(tree).chart[1].series[1].values) :
                \A c \in 2..b.n : b.rows[j + 1][c] # << >>

\* the block yields no chart because its last line is a complete row that
\* failed validation
AbortsOnLastLine(b) ==
    /\ AbortCaseIn(b)
    /\ SetMin(b.bad) = Len(b.rows)

\* C19 (abort stability under appended characters): when a block yields no
\* chart because its last line is a complete row that failed validation,
\* the block with one more character at its end yields no chart either.
C19_AbortStableTyping ==
    [][(pc = "type" /\ AbortsOnLastLine(BlockOf(engine, text)) /\ ~BlockCharted(tree))
          => ~BlockCharted(tree')]_vars

\* C20 (idempotence of the transformer): the transformer applied to its own
\* output leaves the tree as it is, with saveOriginal true or false: a block
\* that was charted is not charted or wrapped again.
C20_Idempotent == pc = "stream" => Transformer(engine, options, tree) = tree

(***************************************************************************)
(* One pass as the claims speak of it                                      *)
(***************************************************************************)
\* the element is a <pre><code class="language-..."> block that none of the
\* ways of declining or aborting applies to
IsAcceptedBlock(eng, opts, node) ==
    /\ node.tagName = "pre"
    /\ node.children # << >>
    /\ node.children[1].tagName = "code"
    /\ \E k \in DOMAIN node.children[1].className :
          node.children[1].className[k] = LangClass(codeLanguage(opts))
    /\ AcceptedIn(BlockOf(eng, RawText(node.children[1])))

\* the <svg> draws the rows of the block before
ChartsBlock(eng, svgNode, before) ==
    /\ svgNode.tagName = "svg"
    /\ svgNode.chart # << >>
    /\ Len(svgNode.chart[1].series[1].values)
           = LeadingValidIn(BlockOf(eng, RawText(before.children[1])))

\* after is what one pass makes of before: an accepted block has become its
\* chart, alone or in a container in front of the block as it was, and
\* every other node is itself, its children handled the same way, one for
\* one
RECURSIVE HandledOnce(_, _, _, _)
HandledOnce(eng, opts, before, after) ==
    IF before.type = "element" /\ IsAcceptedBlock(eng, opts, before)
    THEN IF opts.saveOriginal = << TRUE >>
         THEN /\ after.tagName = "div"
              /\ Len(after.children) = 2
              /\ ChartsBlock(eng, after.children[1], before)
              /\ after.children[2] = before
         ELSE ChartsBlock(eng, after, before)
    ELSE /\ [after EXCEPT !.children = << >>] = [before EXCEPT !.children = << >>]
         /\ Len(after.children) = Len(before.children)
         /\ \A i \in DOMAIN before.children :
               HandledOnce(eng, opts, before.children[i], after.children[i])

\* the number of <svg> elements in a tree
RECURSIVE SvgCount(_)
RECURSIVE SvgCountIn(_, _)
SvgCount(node) ==
    (IF node.tagName = "svg" THEN 1 ELSE 0) + SvgCountIn(node.children, 1)

SvgCountIn(kids, i) ==
    IF i > Len(kids) THEN 0 ELSE SvgCount(kids[i]) + SvgCountIn(kids, i + 1)

\* C21 (every block is handled exactly once per pass): one run of the
\* transformer on a tree of any blocks, side by side, under different
\* parents and among declined blocks, replaces every accepted block by its
\* chart, once, where it stood, and leaves everything else as it was; with
\* saveOriginal true the block kept in the container is as it was before
\* the pass.
C21_HandledOncePerPass ==
    [][pc = "parsed" => HandledOnce(engine, options, tree, tree')]_vars

\* two accepted blocks side by side, then the two under the <div>s next to
\* a declined block, the originals kept: four charts, each in its container
C21_Witness ==
    /\ pc = "transformed"
    /\ options.saveOriginal = << TRUE >>
    /\ Len(tree.children) = 3
    /\ \A i \in 1..2 :
          /\ tree.children[i].tagName = "div"
          /\ tree.children[i].className = << DefaultContainerClass >>
          /\ tree.children[i].children[2] \in {Pre(TextA), Pre(TextB)}
    /\ tree.children[3].className = << >>
    /\ tree.children[3].tagName = "div"
    /\ SvgCount(tree) = 4

====
